---- MODULE Spec2Model ----
(***************************************************************************)
(* Model of the cash-forecast simulation engine (src/src/main.rs):         *)
(* the opening-balance normaliser, the daily step function               *)
(* compute_next_day_balances_with_tithe and the driver run.                *)
(*                                                                         *)
(* Money is held in integer cents (a Decimal of scale 2).  Rates and       *)
(* percentages are decimals [m |-> mantissa, s |-> scale].  The interest   *)
(* arithmetic of line 205 goes through rust_decimal's division, which      *)
(* keeps at most 28 fractional digits, so it is computed here on digit     *)
(* sequences of that length and not as exact rational arithmetic.          *)
(***************************************************************************)
EXTENDS Integers, Sequences, FiniteSets, TLC

VARIABLES
    config,          \* Config: transactions, accounts, start_date (lines 15-22)
    days_to_run,     \* run's days_to_run argument (line 136)
    accounts_with_defaults,  \* main's accounts_with_defaults (line 114)
    arg,             \* the sheet the caller hands to run (line 135)
    pc,              \* control position: main, call, loop, step, done, panic
    balances,        \* run's `balances` (line 138)
    date,            \* run's `date` (line 139)
    history,         \* run's `history` (line 140)
    total_salary_since_last_tithe,   \* run's accumulator (line 141)
    n,               \* iterations of run's for loop completed (line 143)
    new_balances,    \* the step's working sheet (line 184)
    salary_accumulator,  \* the step's working accumulator (line 185)
    i,               \* index of the next transaction of the step's loop (line 188)
    last,            \* history variable: the generator application just made
    log              \* history variable: the applications that fired, in order

vars == <<config, days_to_run, accounts_with_defaults, arg, pc, balances, date, history,
          total_salary_since_last_tithe, n, new_balances, salary_accumulator,
          i, last, log>>

(***************************************************************************)
(* Account names (lines 7-12)                                              *)
(***************************************************************************)
MAIN_ACCOUNT == "main"
SALARY_INCOME == "salary_income"
MORTGAGE_INCOME == "mortgage_income"
MORTGAGE_ACCOUNT == "mortgage"
OPENING_BALANCES == "opening_balances"
CHARITY_EXPENDITURE == "charity_expenditure"

(***************************************************************************)
(* Bounds of the model                                                     *)
(***************************************************************************)
MaxGens == 3         \* longest transaction list drawn
MaxDays == 3         \* largest days_to_run drawn

(***************************************************************************)
(* Decimal arithmetic (rust_decimal), on magnitudes written as sequences   *)
(* of decimal digits, most significant first.                              *)
(***************************************************************************)
MAX_PRECISION == 28

Abs(x) == IF x < 0 THEN -x ELSE x

Min(a, b) == IF a <= b THEN a ELSE b

Max(a, b) == IF a >= b THEN a ELSE b

RECURSIVE Pow10(_)
Pow10(k) == IF k = 0 THEN 1 ELSE 10 * Pow10(k - 1)

Zeros(k) == [j \in 1..k |-> 0]

RECURSIVE NatDigits(_)
NatDigits(x) == IF x < 10 THEN <<x>> ELSE Append(NatDigits(x \div 10), x % 10)

RECURSIVE DigitsNat(_)
DigitsNat(ds) ==
    IF ds = <<>> THEN 0
    ELSE 10 * DigitsNat(SubSeq(ds, 1, Len(ds) - 1)) + ds[Len(ds)]

RECURSIVE StripZeros(_)
StripZeros(ds) ==
    IF Len(ds) > 1 /\ ds[1] = 0 THEN StripZeros(Tail(ds)) ELSE ds

IsZeroDigits(ds) == \A j \in 1..Len(ds) : ds[j] = 0

\* ds + 1
RECURSIVE AddOne(_)
AddOne(ds) ==
    IF ds = <<>> THEN <<1>>
    ELSE IF ds[Len(ds)] < 9
         THEN [ds EXCEPT ![Len(ds)] = @ + 1]
         ELSE Append(AddOne(SubSeq(ds, 1, Len(ds) - 1)), 0)

\* Long division of ds by the small natural d: quotient digits and remainder.
RECURSIVE LongDiv(_, _, _, _)
LongDiv(ds, d, rem, q) ==
    IF ds = <<>> THEN [q |-> q, r |-> rem]
    ELSE LET cur == rem * 10 + Head(ds)
         IN  LongDiv(Tail(ds), d, cur % d, Append(q, cur \div d))

\* ds * k for a natural k, least significant digit first with a carry.
RECURSIVE MulCarry(_, _, _)
MulCarry(ds, k, carry) ==
    IF ds = <<>> THEN (IF carry = 0 THEN <<>> ELSE NatDigits(carry))
    ELSE LET cur == ds[Len(ds)] * k + carry
         IN  Append(MulCarry(SubSeq(ds, 1, Len(ds) - 1), k, cur \div 10), cur % 10)

\* 2^96, the bound of a Decimal's mantissa.
MantissaLimit ==
    <<7,9,2,2,8,1,6,2,5,1,4,2,6,4,3,3,7,5,9,3,5,4,3,9,5,0,3,3,6>>

RECURSIVE DigitsLess(_, _)
DigitsLess(a, b) ==
    IF a = <<>> THEN FALSE
    ELSE IF Head(a) # Head(b) THEN Head(a) < Head(b)
    ELSE DigitsLess(Tail(a), Tail(b))

FitsMantissa(ds) ==
    LET s == StripZeros(ds)
    IN  \/ Len(s) < Len(MantissaLimit)
        \/ Len(s) = Len(MantissaLimit) /\ DigitsLess(s, MantissaLimit)

\* A decimal value: sign, magnitude digits and scale (digits after the point).
Dec(neg, digits, scale) == [neg |-> neg, digits |-> digits, scale |-> scale]

DecOf(x) == Dec(x.m < 0, NatDigits(Abs(x.m)), x.s)

\* The decimal of a balance in cents.
DecOfCents(c) == Dec(c < 0, NatDigits(Abs(c)), 2)

\* x / d for a decimal x and a natural divisor d (dec!(12), dec!(100)): the
\* quotient carries MAX_PRECISION fractional digits, the last one rounded to
\* nearest (ties to even).
DecDiv(x, d) ==
    LET num == x.digits \o Zeros(MAX_PRECISION - x.scale)
        res == LongDiv(num, d, 0, <<>>)
        up  == \/ 2 * res.r > d
               \/ 2 * res.r = d /\ res.q[Len(res.q)] % 2 = 1
    IN  Dec(x.neg, IF up THEN AddOne(res.q) ELSE res.q, MAX_PRECISION)

\* Drop low digits until the scale is at most MAX_PRECISION and the mantissa
\* fits 96 bits; the last digit dropped rounds the result.
RECURSIVE Rescale(_, _, _)
Rescale(ds, scale, dropped) ==
    IF scale > 0 /\ (scale > MAX_PRECISION \/ ~FitsMantissa(ds))
    THEN Rescale(SubSeq(ds, 1, Len(ds) - 1), scale - 1, ds[Len(ds)])
    ELSE [digits |-> IF dropped >= 5 THEN AddOne(ds) ELSE ds, scale |-> scale]

\* x * y for decimals x and y whose second mantissa is small.
DecMul(x, y) ==
    LET prod == MulCarry(y.digits, DigitsNat(x.digits), 0)
        fit  == Rescale(IF prod = <<>> THEN <<0>> ELSE prod, x.scale + y.scale, 0)
    IN  Dec(x.neg # y.neg, fit.digits, fit.scale)

\* Decimal::round_dp(2) with banker's rounding, as a number of cents.
RoundDp2(x) ==
    IF x.scale <= 2
    THEN (IF x.neg THEN -1 ELSE 1) * DigitsNat(x.digits) * Pow10(2 - x.scale)
    ELSE LET pad  == Zeros(Max(0, x.scale + 1 - Len(x.digits))) \o x.digits
             keep == SubSeq(pad, 1, Len(pad) - (x.scale - 2))
             drop == SubSeq(pad, Len(pad) - (x.scale - 2) + 1, Len(pad))
             c    == DigitsNat(keep)
             up   == \/ drop[1] > 5
                     \/ drop[1] = 5 /\ ~IsZeroDigits(Tail(drop))
                     \/ drop[1] = 5 /\ IsZeroDigits(Tail(drop)) /\ c % 2 = 1
         IN  (IF x.neg THEN -1 ELSE 1) * (IF up THEN c + 1 ELSE c)

(***************************************************************************)
(* Balance sheets: functions from account names to cents                   *)
(***************************************************************************)
RECURSIVE SumOver(_, _)
SumOver(b, names) ==
    IF names = {} THEN 0
    ELSE LET a == CHOOSE x \in names : TRUE
         IN  b[a] + SumOver(b, names \ {a})

\* new_balances.values().sum()
Total(b) == SumOver(b, DOMAIN b)

\* HashMap::insert: add the key or overwrite its value
Insert(b, name, v) ==
    [a \in DOMAIN b \cup {name} |-> IF a = name THEN v ELSE b[a]]

\* *b.get_mut(name) += v
AddTo(b, name, v) == [b EXCEPT ![name] = @ + v]

\* Variant of lines 166-174: the three accounts are inserted without looking
\* whether they are present, so a present one is set back to zero
add_default_accounts_overwriting(b) ==
    Insert(Insert(Insert(b, SALARY_INCOME, 0), MORTGAGE_INCOME, 0),
           CHARITY_EXPENDITURE, 0)

\* lines 162-176
add_default_accounts(b) ==
    LET b1 == IF SALARY_INCOME \notin DOMAIN b THEN Insert(b, SALARY_INCOME, 0) ELSE b
        b2 == IF MORTGAGE_INCOME \notin DOMAIN b1
              THEN Insert(b1, MORTGAGE_INCOME, 0) ELSE b1
    IN  IF CHARITY_EXPENDITURE \notin DOMAIN b2
        THEN Insert(b2, CHARITY_EXPENDITURE, 0) ELSE b2

\* lines 153-160: the sum runs over every value of the map, a present
\* "opening_balances" entry included, and the insert then overwrites that entry
add_opening_balances(b) ==
    LET opening_balance == Total(b)
    IN  Insert(b, OPENING_BALANCES, -opening_balance)

(***************************************************************************)
(* Calendar (chrono::NaiveDate)                                            *)
(***************************************************************************)
IsLeap(y) == (y % 4 = 0 /\ y % 100 # 0) \/ y % 400 = 0

DaysInMonth(y, m) ==
    IF m = 2 THEN (IF IsLeap(y) THEN 29 ELSE 28)
    ELSE IF m \in {4, 6, 9, 11} THEN 30 ELSE 31

\* date + chrono::Duration::days(1)
NextDate(dt) ==
    IF dt.d < DaysInMonth(dt.y, dt.m) THEN [dt EXCEPT !.d = @ + 1]
    ELSE IF dt.m < 12 THEN [y |-> dt.y, m |-> dt.m + 1, d |-> 1]
    ELSE [y |-> dt.y + 1, m |-> 1, d |-> 1]

(***************************************************************************)
(* The generators' effects (lines 188-239).  Each takes the generator, the *)
(* working sheet, the working accumulator and the date, and gives the      *)
(* outcome of that one iteration of the loop: ok = FALSE is a panic.       *)
(***************************************************************************)
Outcome(b, acc, fired) == [ok |-> TRUE, b |-> b, acc |-> acc, fired |-> fired]

Panicked(b, acc) == [ok |-> FALSE, b |-> b, acc |-> acc, fired |-> TRUE]

\* Variants of line 195 with one clamp lost or mistaken
ActualDeductionSignSlip(deduction_amount, to_balance, from_balance) ==
    Max(Min(Min(deduction_amount, to_balance), from_balance), 0)

ActualDeductionNoBalanceClamp(deduction_amount, to_balance, from_balance) ==
    Max(Min(deduction_amount, -to_balance), 0)

ActualDeductionNoLiabilityClamp(deduction_amount, to_balance, from_balance) ==
    Max(Min(deduction_amount, from_balance), 0)

\* Variant of line 195: the contractual amount is deducted as it is
ActualDeductionUnclamped(deduction_amount, to_balance, from_balance) ==
    deduction_amount

\* line 195
ActualDeduction(deduction_amount, to_balance, from_balance) ==
    Max(Min(Min(deduction_amount, -to_balance), from_balance), 0)

\* Variant of lines 198-199: the liability is credited with the contractual
\* amount, not with the actual deduction
MortgageCreditsFullAmount(g, b, acc, dt) ==
    IF dt.d # g.deduction_day THEN Outcome(b, acc, FALSE)
    ELSE IF g.from \notin DOMAIN b \/ g.to \notin DOMAIN b THEN Panicked(b, acc)
    ELSE LET actual_deduction ==
                 ActualDeduction(g.deduction_amount, b[g.to], b[g.from])
         IN  IF b[g.to] > 0 THEN Panicked(b, acc)
             ELSE Outcome(AddTo(AddTo(b, g.from, -actual_deduction),
                                g.to, g.deduction_amount), acc, TRUE)

\* Variant of line 194: the sign of the liability is not asserted
MortgageAcceptsPositive(g, b, acc, dt) ==
    IF dt.d # g.deduction_day THEN Outcome(b, acc, FALSE)
    ELSE IF g.from \notin DOMAIN b \/ g.to \notin DOMAIN b THEN Panicked(b, acc)
    ELSE LET actual_deduction ==
                 ActualDeduction(g.deduction_amount, b[g.to], b[g.from])
         IN  Outcome(AddTo(AddTo(b, g.from, -actual_deduction),
                           g.to, actual_deduction), acc, TRUE)

\* lines 190-201
Mortgage(g, b, acc, dt) ==
    IF dt.d # g.deduction_day THEN Outcome(b, acc, FALSE)
    ELSE IF g.from \notin DOMAIN b \/ g.to \notin DOMAIN b THEN Panicked(b, acc)
    ELSE LET from_balance == b[g.from]
             to_balance == b[g.to]
             actual_deduction ==
                 ActualDeduction(g.deduction_amount, to_balance, from_balance)
         IN  IF to_balance > 0 THEN Panicked(b, acc)
             ELSE IF ~(actual_deduction <= g.deduction_amount) THEN Panicked(b, acc)
             ELSE IF ~(actual_deduction >= 0) THEN Panicked(b, acc)
             ELSE Outcome(AddTo(AddTo(b, g.from, -actual_deduction),
                                g.to, actual_deduction), acc, TRUE)

\* Variant of line 205: the yearly rate is applied every month
MonthlyInterestAtYearlyRate(current_balance, rate) ==
    RoundDp2(DecMul(DecOfCents(current_balance), DecDiv(DecOf(rate), 100)))

\* lines 205-207: current_balance * (rate / 12 / 100), then round_dp(2)
MonthlyInterest(current_balance, rate) ==
    RoundDp2(DecMul(DecOfCents(current_balance),
                    DecDiv(DecDiv(DecOf(rate), 12), 100)))

\* Variant of lines 208-209: the interest is credited to the account but not
\* debited from the income account
InterestCreditsOnly(g, b, acc, dt) ==
    IF ~(dt.d = g.day /\ g.rate.m # 0) THEN Outcome(b, acc, FALSE)
    ELSE IF g.account \notin DOMAIN b \/ g.income_account \notin DOMAIN b
    THEN Panicked(b, acc)
    ELSE LET monthly_interest == MonthlyInterest(b[g.account], g.rate)
         IN  Outcome(AddTo(b, g.account, monthly_interest), acc, TRUE)

\* lines 202-211
Interest(g, b, acc, dt) ==
    IF ~(dt.d = g.day /\ g.rate.m # 0) THEN Outcome(b, acc, FALSE)
    ELSE IF g.account \notin DOMAIN b \/ g.income_account \notin DOMAIN b
    THEN Panicked(b, acc)
    ELSE LET monthly_interest == MonthlyInterest(b[g.account], g.rate)
         IN  Outcome(AddTo(AddTo(b, g.account, monthly_interest),
                           g.income_account, -monthly_interest), acc, TRUE)

\* Variant of line 213: the day is not looked at
SalaryEveryDay(g, b, acc, dt) ==
    IF g.to \notin DOMAIN b \/ SALARY_INCOME \notin DOMAIN b THEN Panicked(b, acc)
    ELSE Outcome(AddTo(AddTo(b, g.to, g.amount), SALARY_INCOME, -g.amount),
                 acc + g.amount, TRUE)

\* Variant of lines 214-215: an account the sheet lacks is created at zero
\* (entry().or_insert) and the salary is paid
SalaryCreatesAccount(g, b, acc, dt) ==
    IF dt.d # g.day THEN Outcome(b, acc, FALSE)
    ELSE LET b1 == IF g.to \in DOMAIN b THEN b ELSE Insert(b, g.to, 0)
             b2 == IF SALARY_INCOME \in DOMAIN b1 THEN b1
                   ELSE Insert(b1, SALARY_INCOME, 0)
         IN  Outcome(AddTo(AddTo(b2, g.to, g.amount), SALARY_INCOME, -g.amount),
                     acc + g.amount, TRUE)

\* Variant of lines 214-217: the salary is paid but not accumulated
SalaryNotAccumulated(g, b, acc, dt) ==
    IF dt.d # g.day THEN Outcome(b, acc, FALSE)
    ELSE IF g.to \notin DOMAIN b \/ SALARY_INCOME \notin DOMAIN b THEN Panicked(b, acc)
    ELSE Outcome(AddTo(AddTo(b, g.to, g.amount), SALARY_INCOME, -g.amount), acc, TRUE)

\* Variant of line 217: only a salary paid into the main account is accumulated
SalaryToMainAccumulates(g, b, acc, dt) ==
    IF dt.d # g.day THEN Outcome(b, acc, FALSE)
    ELSE IF g.to \notin DOMAIN b \/ SALARY_INCOME \notin DOMAIN b THEN Panicked(b, acc)
    ELSE Outcome(AddTo(AddTo(b, g.to, g.amount), SALARY_INCOME, -g.amount),
                 IF g.to = MAIN_ACCOUNT THEN acc + g.amount ELSE acc, TRUE)

\* lines 212-219
Salary(g, b, acc, dt) ==
    IF dt.d # g.day THEN Outcome(b, acc, FALSE)
    ELSE IF g.to \notin DOMAIN b \/ SALARY_INCOME \notin DOMAIN b THEN Panicked(b, acc)
    ELSE Outcome(AddTo(AddTo(b, g.to, g.amount), SALARY_INCOME, -g.amount),
                 acc + g.amount, TRUE)

\* Variant of line 221: in a month that lacks the configured day the transfer
\* is made on the month's last day
TransferOnLastDayOfShortMonth(g, b, acc, dt) ==
    IF ~(dt.d = g.day
         \/ (g.day > DaysInMonth(dt.y, dt.m) /\ dt.d = DaysInMonth(dt.y, dt.m)))
    THEN Outcome(b, acc, FALSE)
    ELSE IF g.from \notin DOMAIN b \/ g.to \notin DOMAIN b THEN Panicked(b, acc)
    ELSE Outcome(AddTo(AddTo(b, g.from, -g.amount), g.to, g.amount), acc, TRUE)

\* Variant of lines 222-223: an account the sheet lacks is created at zero
\* (entry().or_insert) and the transfer goes through
TransferCreatesAccount(g, b, acc, dt) ==
    IF dt.d # g.day THEN Outcome(b, acc, FALSE)
    ELSE LET b1 == IF g.from \in DOMAIN b THEN b ELSE Insert(b, g.from, 0)
             b2 == IF g.to \in DOMAIN b1 THEN b1 ELSE Insert(b1, g.to, 0)
         IN  Outcome(AddTo(AddTo(b2, g.from, -g.amount), g.to, g.amount), acc, TRUE)

\* Variant of lines 222-223: the transfer is limited to what `from` holds, as
\* the Mortgage payment is
TransferClamped(g, b, acc, dt) ==
    IF dt.d # g.day THEN Outcome(b, acc, FALSE)
    ELSE IF g.from \notin DOMAIN b \/ g.to \notin DOMAIN b THEN Panicked(b, acc)
    ELSE LET amount == Max(Min(g.amount, b[g.from]), 0)
         IN  Outcome(AddTo(AddTo(b, g.from, -amount), g.to, amount), acc, TRUE)

\* lines 220-225
Transfer(g, b, acc, dt) ==
    IF dt.d # g.day THEN Outcome(b, acc, FALSE)
    ELSE IF g.from \notin DOMAIN b \/ g.to \notin DOMAIN b THEN Panicked(b, acc)
    ELSE Outcome(AddTo(AddTo(b, g.from, -g.amount), g.to, g.amount), acc, TRUE)

\* line 229: (salary_accumulator * percentage / 100).round_dp(2); the product
\* and its division by 100 are exact in a Decimal, only round_dp rounds
TitheAmount(acc, percentage) ==
    RoundDp2(Dec((acc < 0) # (percentage.m < 0),
                 NatDigits(Abs(acc) * Abs(percentage.m)),
                 2 + percentage.s + 2))

\* Variant of line 234: the accumulator is reduced by the amount paid instead
\* of being reset
TitheDeductsPaidAmount(g, b, acc, dt) ==
    IF dt.d # g.day THEN Outcome(b, acc, FALSE)
    ELSE LET tithe_amount == TitheAmount(acc, g.percentage)
         IN  IF ~(tithe_amount > 0) THEN Outcome(b, acc, TRUE)
             ELSE IF g.from \notin DOMAIN b \/ g.to \notin DOMAIN b
             THEN Panicked(b, acc)
             ELSE Outcome(AddTo(AddTo(b, g.from, -tithe_amount),
                                g.to, tithe_amount), acc - tithe_amount, TRUE)

\* Variant of line 234: the accumulator is not reset
TitheWithoutReset(g, b, acc, dt) ==
    IF dt.d # g.day THEN Outcome(b, acc, FALSE)
    ELSE LET tithe_amount == TitheAmount(acc, g.percentage)
         IN  IF ~(tithe_amount > 0) THEN Outcome(b, acc, TRUE)
             ELSE IF g.from \notin DOMAIN b \/ g.to \notin DOMAIN b
             THEN Panicked(b, acc)
             ELSE Outcome(AddTo(AddTo(b, g.from, -tithe_amount),
                                g.to, tithe_amount), acc, TRUE)

\* Variant of lines 230-235: the accumulator is reset whenever the tithe fires
TitheAlwaysResets(g, b, acc, dt) ==
    IF dt.d # g.day THEN Outcome(b, acc, FALSE)
    ELSE LET tithe_amount == TitheAmount(acc, g.percentage)
         IN  IF ~(tithe_amount > 0) THEN Outcome(b, 0, TRUE)
             ELSE IF g.from \notin DOMAIN b \/ g.to \notin DOMAIN b
             THEN Panicked(b, acc)
             ELSE Outcome(AddTo(AddTo(b, g.from, -tithe_amount),
                                g.to, tithe_amount), 0, TRUE)

\* lines 226-237
Tithe(g, b, acc, dt) ==
    IF dt.d # g.day THEN Outcome(b, acc, FALSE)
    ELSE LET tithe_amount == TitheAmount(acc, g.percentage)
         IN  IF ~(tithe_amount > 0) THEN Outcome(b, acc, TRUE)
             ELSE IF g.from \notin DOMAIN b \/ g.to \notin DOMAIN b
             THEN Panicked(b, acc)
             ELSE Outcome(AddTo(AddTo(b, g.from, -tithe_amount),
                                g.to, tithe_amount), 0, TRUE)

\* line 189: match transaction
Apply(g, b, acc, dt) ==
    CASE g.type = "mortgage" -> Mortgage(g, b, acc, dt)
      [] g.type = "interest" -> Interest(g, b, acc, dt)
      [] g.type = "salary"   -> Salary(g, b, acc, dt)
      [] g.type = "transfer" -> Transfer(g, b, acc, dt)
      [] g.type = "tithe"    -> Tithe(g, b, acc, dt)

\* Variant of lines 242-249: the total is not checked
TotalUnchecked(b) == TRUE

\* lines 242-243
TotalIsZero(b) == Total(b) = 0

(***************************************************************************)
(* The state machine: main's preparation of the sheet, run's loop over the *)
(* days and, inside each day, the step's loop over the transactions.       *)
(***************************************************************************)
\* the value of a sheet variable that is not yet in scope
NoSheet == [a \in {} |-> 0]

NoApplication == [i |-> 0]

\* main, lines 114-115: the opening balance normaliser
PrepareBalances ==
    /\ pc = "main"
    /\ accounts_with_defaults' = add_default_accounts(config.accounts)
    /\ arg' = add_opening_balances(accounts_with_defaults')
    /\ pc' = "call"
    /\ UNCHANGED <<config, days_to_run, balances, date, history,
                   total_salary_since_last_tithe, n, new_balances,
                   salary_accumulator, i, last, log>>

\* a caller that hands config.accounts to run as they are (e.g. lines 559, 573)
UseAccounts ==
    /\ pc = "main"
    /\ arg' = config.accounts
    /\ pc' = "call"
    /\ UNCHANGED <<config, days_to_run, accounts_with_defaults, balances, date, history,
                   total_salary_since_last_tithe, n, new_balances,
                   salary_accumulator, i, last, log>>

\* run, lines 138-141
run ==
    /\ pc = "call"
    /\ balances' = arg
    /\ date' = config.start_date
    /\ history' = <<>>
    /\ total_salary_since_last_tithe' = 0
    /\ n' = 0
    /\ pc' = "loop"
    /\ UNCHANGED <<config, days_to_run, accounts_with_defaults, arg, new_balances, salary_accumulator,
                   i, last, log>>

\* Variant of lines 143-145: the first step is made on the start date itself,
\* the date being advanced only after a day has been stepped
BeginDayStepsStartDate ==
    /\ pc = "loop"
    /\ n < days_to_run
    /\ date' = IF n = 0 THEN date ELSE NextDate(date)
    /\ new_balances' = balances
    /\ salary_accumulator' = total_salary_since_last_tithe
    /\ i' = 1
    /\ last' = NoApplication
    /\ pc' = "step"
    /\ UNCHANGED <<config, days_to_run, accounts_with_defaults, arg, balances, history,
                   total_salary_since_last_tithe, n, log>>

\* Variant of line 143: the range of the loop is inclusive (0..=days_to_run)
BeginDayInclusive ==
    /\ pc = "loop"
    /\ n <= days_to_run
    /\ date' = NextDate(date)
    /\ new_balances' = balances
    /\ salary_accumulator' = total_salary_since_last_tithe
    /\ i' = 1
    /\ last' = NoApplication
    /\ pc' = "step"
    /\ UNCHANGED <<config, days_to_run, accounts_with_defaults, arg, balances, history,
                   total_salary_since_last_tithe, n, log>>

\* Variant of line 145: every step starts from an accumulator of zero, as the
\* wrapper compute_next_day_balances (line 258) does
BeginDayAccumulatorNotThreaded ==
    /\ pc = "loop"
    /\ n < days_to_run
    /\ date' = NextDate(date)
    /\ new_balances' = balances
    /\ salary_accumulator' = 0
    /\ i' = 1
    /\ last' = NoApplication
    /\ pc' = "step"
    /\ UNCHANGED <<config, days_to_run, accounts_with_defaults, arg, balances, history,
                   total_salary_since_last_tithe, n, log>>

\* lines 143-145 and 184-185: the next day begins, the step copies its inputs
BeginDay ==
    /\ pc = "loop"
    /\ n < days_to_run
    /\ date' = NextDate(date)
    /\ new_balances' = balances
    /\ salary_accumulator' = total_salary_since_last_tithe
    /\ i' = 1
    /\ last' = NoApplication
    /\ pc' = "step"
    /\ UNCHANGED <<config, days_to_run, accounts_with_defaults, arg, balances, history,
                   total_salary_since_last_tithe, n, log>>

\* Variant of lines 188-239: every generator reads the sheet the day began
\* with (`balances`), and its movements are then added to the working sheet
ApplyGeneratorOnDayStart ==
    /\ pc = "step"
    /\ i <= Len(config.transactions)
    /\ LET g == config.transactions[i]
           r == Apply(g, balances, salary_accumulator, date)
       IN  /\ last' = [i |-> i, g |-> g, fired |-> r.fired, ok |-> r.ok,
                       b |-> new_balances, acc |-> salary_accumulator]
           /\ log' = IF r.ok /\ r.fired
                     THEN Append(log, [g |-> g, date |-> date, acc |-> salary_accumulator,
                                       before |-> new_balances, after |-> r.b])
                     ELSE log
           /\ IF r.ok
              THEN /\ new_balances' = [a \in DOMAIN new_balances |->
                                         new_balances[a] + r.b[a] - balances[a]]
                   /\ salary_accumulator' = r.acc
                   /\ i' = i + 1
                   /\ pc' = pc
              ELSE /\ pc' = "panic"
                   /\ UNCHANGED <<new_balances, salary_accumulator, i>>
    /\ UNCHANGED <<config, days_to_run, accounts_with_defaults, arg, balances, date, history,
                   total_salary_since_last_tithe, n>>

\* Variant of line 188: the generators are visited in no fixed order (as the
\* entries of a HashMap are), any of the remaining ones may come next
ApplyGeneratorAnyRemaining ==
    /\ pc = "step"
    /\ i <= Len(config.transactions)
    /\ \E j \in i..Len(config.transactions) :
         LET g == config.transactions[j]
             r == Apply(g, new_balances, salary_accumulator, date)
         IN  /\ last' = [i |-> i, g |-> g, fired |-> r.fired, ok |-> r.ok,
                         b |-> new_balances, acc |-> salary_accumulator]
             /\ log' = IF r.ok /\ r.fired
                       THEN Append(log, [g |-> g, date |-> date,
                                         acc |-> salary_accumulator,
                                         before |-> new_balances, after |-> r.b])
                       ELSE log
             /\ IF r.ok
                THEN /\ new_balances' = r.b
                     /\ salary_accumulator' = r.acc
                     /\ i' = i + 1
                     /\ pc' = pc
                ELSE /\ pc' = "panic"
                     /\ UNCHANGED <<new_balances, salary_accumulator, i>>
    /\ UNCHANGED <<config, days_to_run, accounts_with_defaults, arg, balances, date, history,
                   total_salary_since_last_tithe, n>>

\* lines 188-239: one iteration of the loop over config.transactions
ApplyGenerator ==
    /\ pc = "step"
    /\ i <= Len(config.transactions)
    /\ LET g == config.transactions[i]
           r == Apply(g, new_balances, salary_accumulator, date)
       IN  /\ last' = [i |-> i, g |-> g, fired |-> r.fired, ok |-> r.ok,
                       b |-> new_balances, acc |-> salary_accumulator]
           /\ log' = IF r.ok /\ r.fired
                     THEN Append(log, [g |-> g, date |-> date, acc |-> salary_accumulator,
                                       before |-> new_balances, after |-> r.b])
                     ELSE log
           /\ IF r.ok
              THEN /\ new_balances' = r.b
                   /\ salary_accumulator' = r.acc
                   /\ i' = i + 1
                   /\ pc' = pc
              ELSE /\ pc' = "panic"
                   /\ UNCHANGED <<new_balances, salary_accumulator, i>>
    /\ UNCHANGED <<config, days_to_run, accounts_with_defaults, arg, balances, date, history,
                   total_salary_since_last_tithe, n>>

\* Variant of lines 146-148: the snapshot is pushed before `balances` is
\* replaced, so the day is recorded with the sheet it began with
EndDayRecordsDayStartSheet ==
    /\ pc = "step"
    /\ i > Len(config.transactions)
    /\ IF TotalIsZero(new_balances)
       THEN /\ balances' = new_balances
            /\ total_salary_since_last_tithe' = salary_accumulator
            /\ history' = Append(history, <<date, balances>>)
            /\ n' = n + 1
            /\ pc' = "loop"
       ELSE /\ pc' = "panic"
            /\ UNCHANGED <<balances, total_salary_since_last_tithe, history, n>>
    /\ UNCHANGED <<config, days_to_run, accounts_with_defaults, arg, date, new_balances,
                   salary_accumulator, i, last, log>>

\* Variant of line 148: the history holds the working sheet itself and not a
\* clone of it, so every entry shows the sheet as it is now
EndDaySharesSnapshot ==
    /\ pc = "step"
    /\ i > Len(config.transactions)
    /\ IF TotalIsZero(new_balances)
       THEN /\ balances' = new_balances
            /\ total_salary_since_last_tithe' = salary_accumulator
            /\ history' = Append([k \in 1..Len(history) |->
                                     <<history[k][1], new_balances>>],
                                 <<date, new_balances>>)
            /\ n' = n + 1
            /\ pc' = "loop"
       ELSE /\ pc' = "panic"
            /\ UNCHANGED <<balances, total_salary_since_last_tithe, history, n>>
    /\ UNCHANGED <<config, days_to_run, accounts_with_defaults, arg, date, new_balances,
                   salary_accumulator, i, last, log>>

\* Variant of lines 242-249: the total is checked at the reporting checkpoints
\* only, the first day of each month (line 121)
EndDayChecksAtCheckpoints ==
    /\ pc = "step"
    /\ i > Len(config.transactions)
    /\ IF date.d # 1 \/ TotalIsZero(new_balances)
       THEN /\ balances' = new_balances
            /\ total_salary_since_last_tithe' = salary_accumulator
            /\ history' = Append(history, <<date, new_balances>>)
            /\ n' = n + 1
            /\ pc' = "loop"
       ELSE /\ pc' = "panic"
            /\ UNCHANGED <<balances, total_salary_since_last_tithe, history, n>>
    /\ UNCHANGED <<config, days_to_run, accounts_with_defaults, arg, date, new_balances,
                   salary_accumulator, i, last, log>>

\* Variant of lines 243-249: a failed check ends the run, which returns the
\* days recorded so far
EndDayReturnsPartial ==
    /\ pc = "step"
    /\ i > Len(config.transactions)
    /\ IF TotalIsZero(new_balances)
       THEN /\ balances' = new_balances
            /\ total_salary_since_last_tithe' = salary_accumulator
            /\ history' = Append(history, <<date, new_balances>>)
            /\ n' = n + 1
            /\ pc' = "loop"
       ELSE /\ pc' = "done"
            /\ UNCHANGED <<balances, total_salary_since_last_tithe, history, n>>
    /\ UNCHANGED <<config, days_to_run, accounts_with_defaults, arg, date, new_balances,
                   salary_accumulator, i, last, log>>

\* lines 241-250 and 146-148: the zero-sum check, the step's return and the
\* driver's recording of the day
EndDay ==
    /\ pc = "step"
    /\ i > Len(config.transactions)
    /\ IF TotalIsZero(new_balances)
       THEN /\ balances' = new_balances
            /\ total_salary_since_last_tithe' = salary_accumulator
            /\ history' = Append(history, <<date, new_balances>>)
            /\ n' = n + 1
            /\ pc' = "loop"
       ELSE /\ pc' = "panic"
            /\ UNCHANGED <<balances, total_salary_since_last_tithe, history, n>>
    /\ UNCHANGED <<config, days_to_run, accounts_with_defaults, arg, date, new_balances,
                   salary_accumulator, i, last, log>>

\* line 150
Return ==
    /\ pc = "loop"
    /\ ~(n < days_to_run)
    /\ pc' = "done"
    /\ UNCHANGED <<config, days_to_run, accounts_with_defaults, arg, balances, date, history,
                   total_salary_since_last_tithe, n, new_balances,
                   salary_accumulator, i, last, log>>

Next ==
    \/ PrepareBalances
    \/ UseAccounts
    \/ run
    \/ BeginDay
    \/ ApplyGenerator
    \/ EndDay
    \/ Return

(***************************************************************************)
(* Inputs                                                                  *)
(***************************************************************************)
Sheet(main, mortgage) ==
    (MAIN_ACCOUNT :> main) @@ (MORTGAGE_ACCOUNT :> mortgage)

\* every list of at most MaxGens generators of the pool
RECURSIVE Lists(_, _)
Lists(pool, k) ==
    IF k = 0 THEN {<<>>}
    ELSE LET shorter == Lists(pool, k - 1)
         IN  shorter \cup {Append(l, g) : l \in shorter, g \in pool}

StartDate == [y |-> 2025, m |-> 2, d |-> 27]

\* the state after construction, for a configuration drawn from a pool of
\* generators, a set of raw sheets, a set of start dates and a set of run lengths
InitFrom(pool, sheets, starts, lengths) ==
    /\ config \in [transactions : Lists(pool, MaxGens),
                   accounts : sheets,
                   start_date : starts]
    /\ days_to_run \in lengths
    /\ accounts_with_defaults = NoSheet
    /\ arg = NoSheet
    /\ pc = "main"
    /\ balances = NoSheet
    /\ date = config.start_date
    /\ history = <<>>
    /\ total_salary_since_last_tithe = 0
    /\ n = 0
    /\ new_balances = NoSheet
    /\ salary_accumulator = 0
    /\ i = 0
    /\ last = NoApplication
    /\ log = <<>>

InitWith(pool, sheets) == InitFrom(pool, sheets, {StartDate}, -1..MaxDays)

\* the generators (lines 26-70)
MortgageGen(deduction_amount, deduction_day, from, to) ==
    [type |-> "mortgage", deduction_amount |-> deduction_amount,
     deduction_day |-> deduction_day, from |-> from, to |-> to]

InterestGen(rate, day, account, income_account) ==
    [type |-> "interest", rate |-> rate, day |-> day, account |-> account,
     income_account |-> income_account]

SalaryGen(amount, day, to) ==
    [type |-> "salary", amount |-> amount, day |-> day, to |-> to]

TransferGen(amount, day, from, to) ==
    [type |-> "transfer", amount |-> amount, day |-> day, from |-> from, to |-> to]

TitheGen(percentage, day, from, to) ==
    [type |-> "tithe", percentage |-> percentage, day |-> day, from |-> from,
     to |-> to]

\* a decimal literal: mantissa and scale, e.g. 5.0 is D(50, 1)
D(m, s) == [m |-> m, s |-> s]

\* The general inputs: one generator of each kind around the month's end
\* (the days simulated are February 28, March 1, March 2, ...).
Pool ==
    { MortgageGen(200, 28, MAIN_ACCOUNT, MORTGAGE_ACCOUNT),
      InterestGen(D(1, 0), 28, MAIN_ACCOUNT, MORTGAGE_INCOME),
      InterestGen(D(0, 0), 1, MORTGAGE_ACCOUNT, MORTGAGE_INCOME),
      SalaryGen(150, 1, MAIN_ACCOUNT),
      TransferGen(70, 2, MAIN_ACCOUNT, CHARITY_EXPENDITURE),
      TitheGen(D(100, 1), 2, MAIN_ACCOUNT, CHARITY_EXPENDITURE) }

Sheets ==
    { Sheet(1800, -1000),
      (MAIN_ACCOUNT :> 100) @@ (OPENING_BALANCES :> 5),
      (MAIN_ACCOUNT :> 500) @@ (SALARY_INCOME :> -7) }

Init == InitWith(Pool, Sheets)

Spec == Init /\ [][Next]_vars

\* Inputs around the Mortgage generator: the from balance below, at and above
\* the contractual amount and the liability, negative, and a liability of zero.
MortgagePool ==
    { MortgageGen(200, 28, MAIN_ACCOUNT, MORTGAGE_ACCOUNT),
      SalaryGen(150, 28, MAIN_ACCOUNT),
      MortgageGen(200, 1, MAIN_ACCOUNT, MORTGAGE_ACCOUNT) }

MortgageSheets ==
    { Sheet(-50, -1000), Sheet(0, -1000), Sheet(100, -1000), Sheet(500, -1000),
      Sheet(500, -30), Sheet(10, -30), Sheet(100, -150), Sheet(500, 0),
      Sheet(100, 100) }

MortgageInit == InitWith(MortgagePool, MortgageSheets)

SpecMortgage == MortgageInit /\ [][Next]_vars

\* The same runs under the program's scheduling: it is sequential, and
\* whenever it has a next step it takes it.
FairSpec == MortgageInit /\ [][Next]_vars /\ WF_vars(Next)

\* Inputs around the Tithe generator: a small and a large salary, a tithe whose
\* amount rounds to 0.00 and tithes on consecutive days.
TithePool ==
    { SalaryGen(50, 28, MAIN_ACCOUNT),
      SalaryGen(2000, 1, MAIN_ACCOUNT),
      TitheGen(D(1, 0), 28, MAIN_ACCOUNT, CHARITY_EXPENDITURE),
      TitheGen(D(100, 1), 1, MAIN_ACCOUNT, CHARITY_EXPENDITURE),
      TitheGen(D(100, 1), 2, MAIN_ACCOUNT, CHARITY_EXPENDITURE) }

TitheSheets == { Sheet(1000, -1000), (MAIN_ACCOUNT :> 0) }

TitheInit == InitWith(TithePool, TitheSheets)

SpecTithe == TitheInit /\ [][Next]_vars

\* Inputs around the order of application within one day: the scenario of
\* test_mortgage_payment_limited_by_available_balance (lines 861-884), main of
\* 100.00 against a liability of 500000.00, a payment of 500.00 and interest at
\* 5.0 on the liability, both on day 5, with a salary on the same day.
\* The days simulated are January 4, 5 and 6.
OrderPool ==
    { MortgageGen(50000, 5, MAIN_ACCOUNT, MORTGAGE_ACCOUNT),
      InterestGen(D(50, 1), 5, MORTGAGE_ACCOUNT, MORTGAGE_INCOME),
      SalaryGen(20000, 5, MAIN_ACCOUNT) }

OrderSheets == { Sheet(10000, -50000000) }

OrderStart == [y |-> 2025, m |-> 1, d |-> 3]

OrderInit == InitFrom(OrderPool, OrderSheets, {OrderStart}, -1..MaxDays)

SpecOrder == OrderInit /\ [][Next]_vars

\* Inputs of the runs over a month: the configuration of create_test_accounts(1)
\* (lines 386-419), started on January 1, 2025 and run for 6, 30 and 31 days,
\* the last of which is February 1.
MonthPool ==
    { MortgageGen(12345, 1, MAIN_ACCOUNT, MORTGAGE_ACCOUNT),
      InterestGen(D(50, 1), 1, MORTGAGE_ACCOUNT, MORTGAGE_INCOME),
      SalaryGen(200000, 6, MAIN_ACCOUNT) }

MonthSheets == { Sheet(1000000, -50000000) }

MonthStart == [y |-> 2025, m |-> 1, d |-> 1]

MonthLengths == {6, 30, 31}

MonthInit == InitFrom(MonthPool, MonthSheets, {MonthStart}, MonthLengths)

SpecMonth == MonthInit /\ [][Next]_vars

\* Inputs around the Salary and Transfer generators: salaries into the main
\* account and into another one (test_run_salary_to_different_account, lines
\* 653-674), transfers that the from account can and cannot cover, with and
\* without a Tithe in the list.
SAVINGS == "savings"

PaymentsPool ==
    { SalaryGen(150, 28, MAIN_ACCOUNT),
      SalaryGen(90, 28, SAVINGS),
      TransferGen(70, 28, MAIN_ACCOUNT, SAVINGS),
      TransferGen(2500, 1, SAVINGS, MAIN_ACCOUNT),
      TitheGen(D(100, 1), 1, MAIN_ACCOUNT, CHARITY_EXPENDITURE) }

PaymentsSheets ==
    { (MAIN_ACCOUNT :> 100) @@ (SAVINGS :> 0),
      (MAIN_ACCOUNT :> 50) @@ (SAVINGS :> 20) }

PaymentsInit == InitWith(PaymentsPool, PaymentsSheets)

SpecPayments == PaymentsInit /\ [][Next]_vars

\* Inputs around the failures of a step: generators of every kind that name the
\* savings account, on a sheet without it and on one with it positive (a
\* Mortgage into it then meets a positive balance); the sheets handed over as
\* they are lack "salary_income" and do not sum to zero.
FailuresPool ==
    { TitheGen(D(100, 1), 28, SAVINGS, CHARITY_EXPENDITURE),
      SalaryGen(150, 28, MAIN_ACCOUNT),
      SalaryGen(90, 1, SAVINGS),
      TransferGen(70, 1, MAIN_ACCOUNT, SAVINGS),
      MortgageGen(200, 1, MAIN_ACCOUNT, SAVINGS),
      InterestGen(D(1, 0), 2, SAVINGS, MORTGAGE_INCOME) }

FailuresSheets ==
    { (MAIN_ACCOUNT :> 100),
      (MAIN_ACCOUNT :> 100) @@ (SAVINGS :> 30) }

FailuresInit == InitWith(FailuresPool, FailuresSheets)

SpecFailures == FailuresInit /\ [][Next]_vars

\* Inputs around generators whose two accounts are one and the same account,
\* next to an Interest between two accounts whose amount is rounded.
AliasedPool ==
    { TransferGen(70, 28, MAIN_ACCOUNT, MAIN_ACCOUNT),
      InterestGen(D(50, 1), 28, MAIN_ACCOUNT, MAIN_ACCOUNT),
      SalaryGen(150, 28, SALARY_INCOME),
      TitheGen(D(100, 1), 28, MAIN_ACCOUNT, MAIN_ACCOUNT),
      MortgageGen(200, 1, MORTGAGE_ACCOUNT, MORTGAGE_ACCOUNT),
      InterestGen(D(50, 1), 1, MORTGAGE_ACCOUNT, MORTGAGE_INCOME) }

AliasedSheets == { Sheet(1800, -1000) }

AliasedInit == InitWith(AliasedPool, AliasedSheets)

SpecAliased == AliasedInit /\ [][Next]_vars

\* Inputs around the calendar: generators on the days 29, 30 and 31, on day 0
\* and on day 32 (the day is a u32, lines 30-63), in a run of 64 days from
\* February 27, 2025, which goes through the end of February (28 days), March
\* (31) and April (30) and ends on May 2.
CalendarPool ==
    { TransferGen(10, 29, MAIN_ACCOUNT, CHARITY_EXPENDITURE),
      TransferGen(20, 30, MAIN_ACCOUNT, CHARITY_EXPENDITURE),
      TransferGen(40, 31, MAIN_ACCOUNT, CHARITY_EXPENDITURE),
      TransferGen(80, 0, MAIN_ACCOUNT, CHARITY_EXPENDITURE),
      TransferGen(160, 32, MAIN_ACCOUNT, CHARITY_EXPENDITURE) }

CalendarSheets == { Sheet(1000, -1000) }

CalendarLengths == {64}

CalendarInit == InitFrom(CalendarPool, CalendarSheets, {StartDate}, CalendarLengths)

SpecCalendar == CalendarInit /\ [][Next]_vars

\* Inputs around several Tithe generators: two of different percentages on
\* the day of a salary, a third on the next day, and a salary on that day, in
\* a run of one day or of 30 days from February 27, 2025, in which the 28th
\* comes twice.
SharedPool ==
    { SalaryGen(2000, 28, MAIN_ACCOUNT),
      SalaryGen(500, 1, MAIN_ACCOUNT),
      TitheGen(D(100, 1), 28, MAIN_ACCOUNT, CHARITY_EXPENDITURE),
      TitheGen(D(50, 1), 28, MAIN_ACCOUNT, CHARITY_EXPENDITURE),
      TitheGen(D(100, 1), 1, MAIN_ACCOUNT, CHARITY_EXPENDITURE) }

SharedSheets == { Sheet(1000, -1000) }

SharedLengths == {1, 30}

SharedInit == InitFrom(SharedPool, SharedSheets, {StartDate}, SharedLengths)

SpecShared == SharedInit /\ [][Next]_vars

(***************************************************************************)
(* Properties                                                              *)
(***************************************************************************)
\* the day on which a generator fires
GenDay(g) == IF g.type = "mortgage" THEN g.deduction_day ELSE g.day

\* the application recorded in `last` was of a generator of this type, on its
\* day, and the step went on after it (no panic)
Applied(type) ==
    /\ last.i # 0
    /\ last.g.type = type
    /\ GenDay(last.g) = date.d
    /\ last.ok

\* b with amount moved from account `from` to account `to`
Moved(b, from, to, amount) ==
    [a \in DOMAIN b |->
        b[a] - (IF a = from THEN amount ELSE 0) + (IF a = to THEN amount ELSE 0)]

\* num / den rounded to the nearest integer, ties to the even one
RoundHalfEven(num, den) ==
    LET q == Abs(num) \div den
        r == Abs(num) % den
        up == 2 * r > den \/ (2 * r = den /\ q % 2 = 1)
    IN  (IF num < 0 THEN -1 ELSE 1) * (IF up THEN q + 1 ELSE q)

\* num / den rounded to the nearest integer, ties away from zero
RoundHalfAway(num, den) ==
    LET q == Abs(num) \div den
        r == Abs(num) % den
    IN  (IF num < 0 THEN -1 ELSE 1) * (IF 2 * r >= den THEN q + 1 ELSE q)

\* C1: every snapshot that run has appended to the history sums to zero.
C1_ZeroSumEveryDay ==
    \A k \in 1..Len(history) : Total(history[k][2]) = 0

C1_Witness ==
    /\ Len(history) >= 2
    /\ history[2][2] # history[1][2]
    /\ history[1][2] # arg

\* C2: the sheet the normaliser returns has a total of zero, whatever the raw
\* map holds, an "opening_balances" entry included.
C2_NormalizedTotalIsZero ==
    (pc = "call" /\ arg = add_opening_balances(add_default_accounts(config.accounts)))
        => /\ Total(arg) = 0
           /\ arg[OPENING_BALANCES] =
                  -SumOver(arg, DOMAIN arg \ {OPENING_BALANCES})

\* C3: a Mortgage that fires moves max(0, min(deduction_amount, -to, from)),
\* taken on the balances as they stand at that point of the day, from `from`
\* to `to`, and changes nothing else.
C3_MortgageAmount ==
    Applied("mortgage") =>
        LET g == last.g
            d == Max(0, Min(g.deduction_amount, Min(-last.b[g.to], last.b[g.from])))
        IN  /\ last.b[g.to] <= 0
            /\ new_balances = Moved(last.b, g.from, g.to, d)
            /\ salary_accumulator = last.acc

C3_Witness ==
    /\ Applied("mortgage")
    /\ last.i >= 2
    /\ last.b # balances
    /\ new_balances[last.g.from] < last.b[last.g.from]

\* C4 as stated: whenever a Mortgage fires with the from balance below
\* deduction_amount, the deduction is the from balance and from ends at zero.
C4_Original ==
    (Applied("mortgage") /\ last.b[last.g.from] < last.g.deduction_amount)
        => /\ new_balances[last.g.to] - last.b[last.g.to] = last.b[last.g.from]
           /\ new_balances[last.g.from] = 0

\* C4 amended: whenever a Mortgage fires with a from balance that is not
\* negative, is below deduction_amount and is not above the remaining
\* liability, the deduction is exactly the from balance and from ends at zero;
\* and no Mortgage takes a from balance that was not negative below zero.
C4_MortgageLowerClamp ==
    Applied("mortgage") =>
        LET g == last.g
            from_balance == last.b[g.from]
        IN  /\ (/\ 0 <= from_balance
                /\ from_balance < g.deduction_amount
                /\ from_balance <= -last.b[g.to])
               => /\ new_balances[g.to] - last.b[g.to] = from_balance
                  /\ new_balances[g.from] = 0
            /\ from_balance >= 0 => new_balances[g.from] >= 0

C4_Witness ==
    /\ Applied("mortgage")
    /\ last.b[last.g.from] > 0
    /\ last.b[last.g.from] < last.g.deduction_amount
    /\ last.b[last.g.from] < -last.b[last.g.to]
    /\ new_balances[last.g.from] = 0

\* C5 as stated: whenever a Mortgage fires with the remaining liability below
\* deduction_amount, the deduction is exactly that liability.
C5_Original ==
    (Applied("mortgage") /\ -last.b[last.g.to] < last.g.deduction_amount)
        => new_balances[last.g.to] - last.b[last.g.to] = -last.b[last.g.to]

\* C5 amended: whenever a Mortgage fires with the remaining liability below
\* deduction_amount and the from balance at least that liability, the
\* deduction is exactly the remaining liability (the liability ends at zero).
C5_MortgageUpperClamp ==
    Applied("mortgage") =>
        LET g == last.g
            liability == -last.b[g.to]
        IN  (liability < g.deduction_amount /\ last.b[g.from] >= liability)
                => /\ last.b[g.from] - new_balances[g.from] = liability
                   /\ new_balances[g.to] = 0

C5_Witness ==
    /\ Applied("mortgage")
    /\ -last.b[last.g.to] > 0
    /\ -last.b[last.g.to] < last.g.deduction_amount
    /\ last.b[last.g.from] > -last.b[last.g.to]
    /\ new_balances[last.g.to] = 0

\* C6: a Mortgage that fires while its from balance is negative or zero
\* deducts nothing: no balance changes.
C6_MortgageNothingFromEmpty ==
    (Applied("mortgage") /\ last.b[last.g.from] <= 0)
        => /\ new_balances = last.b
           /\ salary_accumulator = last.acc

C6_Witness ==
    /\ Applied("mortgage")
    /\ last.b[last.g.from] < 0
    /\ last.b[last.g.to] < 0
    /\ new_balances = last.b

\* no generator of the configuration has its day on this date
NoGeneratorOn(dt) ==
    \A k \in 1..Len(config.transactions) : GenDay(config.transactions[k]) # dt.d

\* C7: a generator whose day differs from the day of the month of the stepped
\* date changes nothing, and on a day where no generator's day matches the
\* step returns its input sheet and its input accumulator.
C7_NoMatchNoChange ==
    /\ (last.i # 0 /\ GenDay(last.g) # date.d)
        => /\ last.ok
           /\ new_balances = last.b
           /\ salary_accumulator = last.acc
    /\ (pc = "step" /\ i > Len(config.transactions) /\ NoGeneratorOn(date))
        => /\ new_balances = balances
           /\ salary_accumulator = total_salary_since_last_tithe
    /\ \A k \in 1..Len(history) :
          NoGeneratorOn(history[k][1])
              => history[k][2] = (IF k = 1 THEN arg ELSE history[k - 1][2])

C7_Witness ==
    /\ Len(history) = 2
    /\ config.transactions # <<>>
    /\ NoGeneratorOn(history[2][1])
    /\ history[1][2] # arg
    /\ history[2][2] = history[1][2]

\* C8 as stated: an Interest that fires with a rate other than zero adds
\* B x R / 1200 rounded to 2 decimal places (to the nearest cent, a tie either
\* to the even cent or away from zero) to `account` and takes it from
\* `income_account`; with a rate of zero it changes no balance.
C8_InterestIsExactProductRounded ==
    Applied("interest") =>
        LET g == last.g
            num == last.b[g.account] * g.rate.m
            den == 1200 * Pow10(g.rate.s)
        IN  IF g.rate.m = 0 THEN new_balances = last.b
            ELSE \E amount \in {RoundHalfEven(num, den), RoundHalfAway(num, den)} :
                    new_balances = Moved(last.b, g.income_account, g.account, amount)

\* the amount of a tithe as the claims state it: accumulator x percentage / 100
\* rounded to 2 decimal places, in cents
StatedTithe(acc, percentage) ==
    RoundHalfEven(acc * percentage.m, Pow10(percentage.s + 2))

\* the salary amounts paid after the last Tithe that fired with an amount above
\* zero (all of them if there was none), over a sequence of applications
RECURSIVE SalarySincePaidTithe(_)
SalarySincePaidTithe(l) ==
    IF l = <<>> THEN 0
    ELSE LET e == l[Len(l)]
             rest == SubSeq(l, 1, Len(l) - 1)
         IN  IF e.g.type = "tithe" /\ StatedTithe(e.acc, e.g.percentage) > 0 THEN 0
             ELSE (IF e.g.type = "salary" THEN e.g.amount ELSE 0)
                      + SalarySincePaidTithe(rest)

\* C9: a Tithe that fires with a computed amount above zero moves exactly that
\* amount from `from` to `to` and leaves the accumulator at zero; the amount of
\* every Tithe is computed from the salaries paid after the last such Tithe.
C9_TitheMovesAndResets ==
    Applied("tithe") =>
        /\ last.acc = SalarySincePaidTithe(SubSeq(log, 1, Len(log) - 1))
        /\ StatedTithe(last.acc, last.g.percentage) > 0
            => /\ new_balances = Moved(last.b, last.g.from, last.g.to,
                                       StatedTithe(last.acc, last.g.percentage))
               /\ salary_accumulator = 0

C9_Witness ==
    /\ Applied("tithe")
    /\ last.acc > 0
    /\ new_balances[last.g.to] > last.b[last.g.to]
    /\ new_balances[last.g.from] < last.b[last.g.from]
    /\ salary_accumulator = 0

\* C10: a Tithe that fires with a computed amount of zero changes no balance
\* and keeps the accumulator as it was.
C10_ZeroTitheKeepsAccumulator ==
    (Applied("tithe") /\ StatedTithe(last.acc, last.g.percentage) = 0)
        => /\ new_balances = last.b
           /\ salary_accumulator = last.acc

C10_Witness ==
    /\ Applied("tithe")
    /\ last.acc > 0
    /\ StatedTithe(last.acc, last.g.percentage) = 0
    /\ salary_accumulator = last.acc
    /\ new_balances = last.b

\* the outcome of applying the first k generators of txs, one after the other,
\* each to the sheet and accumulator the one before it left
RECURSIVE InOrder(_, _, _, _, _)
InOrder(txs, k, b, acc, dt) ==
    IF k = 0 THEN Outcome(b, acc, FALSE)
    ELSE LET p == InOrder(txs, k - 1, b, acc, dt)
         IN  IF p.ok THEN Apply(txs[k], p.b, p.acc, dt) ELSE p

\* the step has gone through the whole list <<g1, g2>> on the day d
StepOver(g1, g2, d) ==
    /\ pc = "step"
    /\ i > Len(config.transactions)
    /\ config.transactions = <<g1, g2>>
    /\ date.d = d

OrderMortgage == MortgageGen(50000, 5, MAIN_ACCOUNT, MORTGAGE_ACCOUNT)

OrderInterest == InterestGen(D(50, 1), 5, MORTGAGE_ACCOUNT, MORTGAGE_INCOME)

OrderSalary == SalaryGen(20000, 5, MAIN_ACCOUNT)

\* C11: within a day the generators are applied one at a time in declaration
\* order, each reading the sheet left by the ones before it: the working sheet
\* after k generators is the k-fold application in list order; an Interest
\* declared after a Mortgage is computed on the liability after the payment
\* (and one declared before it on the liability before the payment), and a
\* Mortgage declared after a Salary is clamped against the from balance after
\* the salary (and one declared before it against the balance before).
C11_DeclarationOrder ==
    /\ pc = "step" =>
          LET p == InOrder(config.transactions, i - 1, balances,
                           total_salary_since_last_tithe, date)
          IN  p.ok /\ new_balances = p.b /\ salary_accumulator = p.acc
    /\ StepOver(OrderMortgage, OrderInterest, 5) =>
          LET paid == ActualDeduction(50000, balances[MORTGAGE_ACCOUNT],
                                      balances[MAIN_ACCOUNT])
          IN  new_balances[MORTGAGE_ACCOUNT] =
                  balances[MORTGAGE_ACCOUNT] + paid
                  + MonthlyInterest(balances[MORTGAGE_ACCOUNT] + paid, D(50, 1))
    /\ StepOver(OrderInterest, OrderMortgage, 5) =>
          LET paid == ActualDeduction(50000, balances[MORTGAGE_ACCOUNT],
                                      balances[MAIN_ACCOUNT])
          IN  new_balances[MORTGAGE_ACCOUNT] =
                  balances[MORTGAGE_ACCOUNT] + paid
                  + MonthlyInterest(balances[MORTGAGE_ACCOUNT], D(50, 1))
    /\ StepOver(OrderSalary, OrderMortgage, 5) =>
          new_balances[MAIN_ACCOUNT] =
              balances[MAIN_ACCOUNT] + 20000
              - ActualDeduction(50000, balances[MORTGAGE_ACCOUNT],
                                balances[MAIN_ACCOUNT] + 20000)
    /\ StepOver(OrderMortgage, OrderSalary, 5) =>
          new_balances[MAIN_ACCOUNT] =
              balances[MAIN_ACCOUNT] + 20000
              - ActualDeduction(50000, balances[MORTGAGE_ACCOUNT],
                                balances[MAIN_ACCOUNT])

\* a Mortgage after a Salary has paid more than the balance the day began with
C11_Witness ==
    /\ StepOver(OrderSalary, OrderMortgage, 5)
    /\ balances[MAIN_ACCOUNT] = 10000
    /\ new_balances[MAIN_ACCOUNT] = 0
    /\ new_balances[MORTGAGE_ACCOUNT] = balances[MORTGAGE_ACCOUNT] + 30000

\* the example's step: main of 100.00, a liability of 500000.00, the payment of
\* 500.00 and then the interest at 5.0, all gone through on January 5
ExampleStep ==
    /\ StepOver(OrderMortgage, OrderInterest, 5)
    /\ balances[MAIN_ACCOUNT] = 10000
    /\ balances[MORTGAGE_ACCOUNT] = -50000000

\* C12 as stated: the deduction is 100.00, main becomes 0.00 and the liability
\* becomes -500000.00 + 100.00 + round(-500000.00 x 5 / 1200, 2).
C12_Original ==
    ExampleStep =>
        /\ new_balances[MAIN_ACCOUNT] = 0
        /\ new_balances[MORTGAGE_ACCOUNT] =
               -50000000 + 10000 + RoundHalfEven(-50000000 * 5, 1200)

\* C12 amended: the deduction is 100.00, main becomes 0.00 and the liability
\* becomes -500000.00 + 100.00 + round((-500000.00 + 100.00) x 5 / 1200, 2),
\* which is -501982.92: the interest is taken on the liability after the payment.
C12_ExampleInterestAfterPayment ==
    ExampleStep =>
        /\ new_balances[MAIN_ACCOUNT] = 0
        /\ balances[MAIN_ACCOUNT] - new_balances[MAIN_ACCOUNT] = 10000
        /\ new_balances[MORTGAGE_ACCOUNT] =
               -50000000 + 10000 + RoundHalfEven((-50000000 + 10000) * 5, 1200)
        /\ new_balances[MORTGAGE_ACCOUNT] = -50198292

C12_Witness ==
    /\ ExampleStep
    /\ new_balances[MORTGAGE_INCOME] = 208292

\* the k-th calendar day after dt
RECURSIVE AddDays(_, _)
AddDays(dt, k) == IF k = 0 THEN dt ELSE NextDate(AddDays(dt, k - 1))

\* the days that follow February 27, 2025, written out
AfterStartDate ==
    << [y |-> 2025, m |-> 2, d |-> 28], [y |-> 2025, m |-> 3, d |-> 1],
       [y |-> 2025, m |-> 3, d |-> 2], [y |-> 2025, m |-> 3, d |-> 3],
       [y |-> 2025, m |-> 3, d |-> 4] >>

\* the whole step: every generator of the list, in order, on the day dt
StepOf(b, acc, dt) ==
    InOrder(config.transactions, Len(config.transactions), b, acc, dt)

\* the sheet and the accumulator after k days of a run from `arg`
RECURSIVE AfterDays(_)
AfterDays(k) ==
    IF k = 0 THEN Outcome(arg, 0, FALSE)
    ELSE LET p == AfterDays(k - 1)
         IN  StepOf(p.b, p.acc, AddDays(config.start_date, k))

\* C13: when run returns for days_to_run >= 0, the history has exactly
\* days_to_run entries, entry k is dated start_date + k (none is dated
\* start_date), and entry k holds the step of entry k - 1's sheet (of the
\* initial sheet for k = 1) on that date, with the accumulator threaded through.
C13_OneEntryPerDay ==
    (pc = "done" /\ days_to_run >= 0) =>
        /\ Len(history) = days_to_run
        /\ \A k \in 1..Len(history) :
              /\ history[k][1] = AddDays(config.start_date, k)
              /\ config.start_date = StartDate => history[k][1] = AfterStartDate[k]
              /\ history[k][1] # config.start_date
              /\ LET before == IF k = 1 THEN arg ELSE history[k - 1][2]
                     r == StepOf(before, AfterDays(k - 1).acc, history[k][1])
                 IN  r.ok /\ history[k][2] = r.b

C13_Witness ==
    /\ pc = "done"
    /\ days_to_run = 3
    /\ Len(history) = 3
    /\ history[1][2] # arg
    /\ history[2][2] # history[1][2]
    /\ history[3][2] # history[2][2]

MonthMortgage == MortgageGen(12345, 1, MAIN_ACCOUNT, MORTGAGE_ACCOUNT)

MonthInterest == InterestGen(D(50, 1), 1, MORTGAGE_ACCOUNT, MORTGAGE_INCOME)

MonthSalary == SalaryGen(200000, 6, MAIN_ACCOUNT)

\* the month after the one of dt
FollowingMonth(dt) ==
    IF dt.m < 12 THEN [y |-> dt.y, m |-> dt.m + 1] ELSE [y |-> dt.y + 1, m |-> 1]

HasTithe == \E k \in 1..Len(config.transactions) : config.transactions[k].type = "tithe"

C16_TransferUnclamped ==
    Applied("transfer") =>
        /\ new_balances = Moved(last.b, last.g.from, last.g.to, last.g.amount)
        /\ new_balances[last.g.from] = last.b[last.g.from] - last.g.amount
        /\ new_balances[last.g.to] = last.b[last.g.to] + last.g.amount
        /\ salary_accumulator = last.acc

\* a transfer of more than `from` held
C16_Witness ==
    /\ Applied("transfer")
    /\ last.b[last.g.from] >= 0
    /\ last.b[last.g.from] < last.g.amount
    /\ new_balances[last.g.from] < 0

\* the application recorded in `last` was of a Mortgage on its day, with both
\* of its accounts on the sheet
MortgageTried ==
    /\ last.i # 0
    /\ last.g.type = "mortgage"
    /\ last.g.deduction_day = date.d
    /\ last.g.from \in DOMAIN last.b
    /\ last.g.to \in DOMAIN last.b

\* the day being stepped has an entry in the history
DayRecorded == \E k \in 1..Len(history) : history[k][1] = date

\* C17: a Mortgage that fires while its `to` balance is strictly positive
\* aborts the step, and no sheet is produced for that day; a `to` balance of
\* exactly zero is accepted and nothing is deducted.
C17_PositiveLiabilityAborts ==
    MortgageTried =>
        /\ last.b[last.g.to] > 0 => (~last.ok /\ pc = "panic" /\ ~DayRecorded)
        /\ last.b[last.g.to] = 0 => (last.ok /\ new_balances = last.b)

\* a day has been recorded, and on the next the Mortgage met a positive balance
C17_Witness ==
    /\ MortgageTried
    /\ last.b[last.g.to] > 0
    /\ pc = "panic"
    /\ Len(history) = 1

\* the accounts a generator names, the fixed ones included
Names(g) ==
    CASE g.type = "mortgage" -> {g.from, g.to}
      [] g.type = "interest" -> {g.account, g.income_account}
      [] g.type = "salary"   -> {g.to, SALARY_INCOME}
      [] g.type = "transfer" -> {g.from, g.to}
      [] g.type = "tithe"    -> {g.from, g.to}

\* the application recorded in `last` was of a generator that fires on this
\* day and names an account the sheet lacks
FiredOnMissingAccount ==
    /\ last.i # 0
    /\ GenDay(last.g) = date.d
    /\ last.g.type = "interest" => last.g.rate.m # 0
    /\ ~(Names(last.g) \subseteq DOMAIN last.b)

\* the step was aborted at the application recorded in `last`: no account was
\* created, no day recorded
AbortedAtLast ==
    /\ ~last.ok
    /\ pc = "panic"
    /\ new_balances = last.b
    /\ ~DayRecorded

\* C18 as stated: a generator that fires on a day and names an account absent
\* from the sheet aborts the step of that day.
C18_Original == FiredOnMissingAccount => AbortedAtLast

\* C18 amended: a Mortgage, an Interest of non-zero rate, a Salary or a Transfer
\* that fires, or a Tithe that fires with a computed amount above zero, aborts
\* the step if it names an account absent from the sheet; a Tithe whose
\* computed amount is not above zero does not look its accounts up, and the
\* step goes on with the sheet and the accumulator unchanged.
C18_MissingAccountAborts ==
    FiredOnMissingAccount =>
        IF last.g.type = "tithe" /\ ~(TitheAmount(last.acc, last.g.percentage) > 0)
        THEN last.ok /\ new_balances = last.b /\ salary_accumulator = last.acc
        ELSE AbortedAtLast

\* a Tithe of a positive amount out of an account the sheet lacks
C18_Witness ==
    /\ FiredOnMissingAccount
    /\ last.g.type = "tithe"
    /\ last.acc = 150
    /\ SAVINGS \notin DOMAIN last.b
    /\ pc = "panic"

\* the step of the k-th day of the run from `arg` fails: a generator panics or
\* the total of the sheet it leaves is not zero
DayFails(k) ==
    LET r == AfterDays(k) IN ~r.ok \/ ~TotalIsZero(r.b)

\* C19: if the step of some simulated day fails, run never returns: nothing
\* happens after the failure, no later day is stepped, and the caller gets no
\* history, not even the days recorded before the failure.
C19_FailureReturnsNothing ==
    /\ pc = "panic" => ~ENABLED Next
    /\ (pc \notin {"main", "call"} /\ \E k \in 1..days_to_run : DayFails(k))
           => pc # "done"
    /\ pc = "done" => Len(history) = Max(days_to_run, 0)

\* a day was recorded, the next one failed, and a third was still to come
C19_Witness ==
    /\ pc = "panic"
    /\ Len(history) = 1
    /\ days_to_run = 3
    /\ DayFails(2)
    /\ ~DayFails(1)

\* C20: the zero-sum check is made at the end of every step, also on a day on
\* which no generator fires, so a run started from a sheet whose total is not
\* zero records no snapshot: it aborts on the first simulated day, and returns
\* only if no day is simulated at all.
C20_UnbalancedStartAbortsFirstDay ==
    (pc \notin {"main", "call"} /\ Total(arg) # 0) =>
        /\ history = <<>>
        /\ n = 0
        /\ pc = "done" => days_to_run <= 0
        /\ pc \in {"step", "panic"} => date = NextDate(config.start_date)
        /\ (pc = "step" /\ i > Len(config.transactions)) => ENABLED EndDay
        /\ (pc = "step" /\ i > Len(config.transactions)) => ~TotalIsZero(new_balances)

\* the check has failed at the end of a day on which none of the listed
\* generators fired
C20_Witness ==
    /\ Total(arg) # 0
    /\ pc = "panic"
    /\ Len(config.transactions) = 2
    /\ i > Len(config.transactions)
    /\ log = <<>>
    /\ new_balances = arg
    /\ history = <<>>

\* the three accounts add_default_accounts knows of
DefaultAccounts == {SALARY_INCOME, MORTGAGE_INCOME, CHARITY_EXPENDITURE}

\* main has called add_default_accounts on config.accounts
DefaultsAdded == pc # "main" /\ DOMAIN accounts_with_defaults # {}

\* C21: add_default_accounts inserts each of salary_income, mortgage_income
\* and charity_expenditure at zero when absent, leaves the value of one that is
\* present as it is, and changes no other entry.
C21_DefaultAccounts ==
    DefaultsAdded =>
        /\ DOMAIN accounts_with_defaults = DOMAIN config.accounts \cup DefaultAccounts
        /\ \A a \in DOMAIN config.accounts :
              accounts_with_defaults[a] = config.accounts[a]
        /\ \A a \in DefaultAccounts \ DOMAIN config.accounts :
              accounts_with_defaults[a] = 0

\* one of the three was present with a value other than zero, the two others
\* were absent
C21_Witness ==
    /\ DefaultsAdded
    /\ SALARY_INCOME \in DOMAIN config.accounts
    /\ accounts_with_defaults[SALARY_INCOME] = -7
    /\ MORTGAGE_INCOME \notin DOMAIN config.accounts
    /\ accounts_with_defaults[MORTGAGE_INCOME] = 0
    /\ accounts_with_defaults[MAIN_ACCOUNT] = 500

\* C22: no operation changes what it was given or what it gave before: the
\* Config (its generator list and its raw accounts) never changes; the map
\* add_default_accounts returned and the sheet handed to run stay as they are
\* once made; the sheet a step is given (`balances`) is unchanged while the
\* step works, up to run's own assignment of the step's result; and an entry
\* of the history is never changed or removed once appended.
C22_InputsAndSnapshotsKept ==
    [][ /\ config' = config
        /\ days_to_run' = days_to_run
        /\ DOMAIN accounts_with_defaults # {} =>
              accounts_with_defaults' = accounts_with_defaults
        /\ pc # "main" => arg' = arg
        /\ (pc = "step" /\ pc' \in {"step", "panic"}) => balances' = balances
        /\ (pc = "loop" /\ pc' = "step") => balances' = balances
        /\ pc \notin {"main", "call"} =>
              /\ Len(history') >= Len(history)
              /\ \A k \in 1..Len(history) : history'[k] = history[k]
      ]_vars

\* a step is changing its working sheet while the snapshot of the day before,
\* the sheet it was given, is in the history
C22_Witness ==
    /\ pc = "step"
    /\ Len(history) >= 1
    /\ balances = history[Len(history)][2]
    /\ new_balances # balances
    /\ history[1][2] # arg

\* the first day of the run from `arg` whose step fails, 0 if none does: a
\* function of the generator list, the sheet, the start date and the day count
FirstFailingDay ==
    IF \E k \in 1..days_to_run : DayFails(k)
    THEN CHOOSE k \in 1..days_to_run :
             DayFails(k) /\ \A j \in 1..(k - 1) : ~DayFails(j)
    ELSE 0

\* the generator at which the step of day k panics, 0 if the step gets through
\* its list (and so fails, if it does, at the zero-sum check)
FailingGenerator(k) ==
    LET p == AfterDays(k - 1)
        dt == AddDays(config.start_date, k)
        bad == {j \in 1..Len(config.transactions) :
                   ~InOrder(config.transactions, j, p.b, p.acc, dt).ok}
    IN  IF bad = {} THEN 0 ELSE CHOOSE j \in bad : \A m \in bad : j <= m

\* C23: the outcome of a run is a function of the generator list, the initial
\* sheet, the start date and the day count, so that two runs from the same
\* inputs agree: the history entries are the ones these inputs determine, and a
\* run aborts exactly if they make some day fail, then on the first such day,
\* at the generator (or at the zero-sum check) they determine.
C23_Deterministic ==
    pc \notin {"main", "call"} =>
        /\ Len(history) = n
        /\ \A k \in 1..Len(history) :
              history[k] = <<AddDays(config.start_date, k), AfterDays(k).b>>
        /\ FirstFailingDay # 0 => n < FirstFailingDay
        /\ pc = "done" => (FirstFailingDay = 0 /\ n = Max(days_to_run, 0))
        /\ pc = "panic" =>
              /\ FirstFailingDay = n + 1
              /\ date = AddDays(config.start_date, n + 1)
              /\ IF FailingGenerator(n + 1) = 0
                 THEN i > Len(config.transactions)
                 ELSE i = FailingGenerator(n + 1) /\ last.i = i /\ ~last.ok

\* a run that aborted on its second day at the second generator of its list
C23_Witness ==
    /\ pc = "panic"
    /\ n = 1
    /\ FirstFailingDay = 2
    /\ FailingGenerator(2) = 2
    /\ i = 2
    /\ history[1][2] # arg

\* the applications of the log made on days before the one being stepped
EarlierDays == SelectSeq(log, LAMBDA e : e.date # date)

\* C24: the accumulator is zero when the run starts; after every generator
\* application it is the sum of the salaries paid after the last Tithe that
\* fired with an amount above zero (of all salaries if there was none); and
\* the value a day ends with is the value the next day's step starts with.
C24_AccumulatorIsSalarySinceTithe ==
    /\ (pc = "loop" /\ n = 0) => total_salary_since_last_tithe = 0
    /\ pc \in {"loop", "done"} =>
          total_salary_since_last_tithe = SalarySincePaidTithe(log)
    /\ pc \in {"step", "panic"} =>
          /\ salary_accumulator = SalarySincePaidTithe(log)
          /\ total_salary_since_last_tithe = SalarySincePaidTithe(EarlierDays)
    /\ (pc = "step" /\ i = 1) => salary_accumulator = total_salary_since_last_tithe

\* a salary of one day and a salary of the next are both in the accumulator,
\* after a Tithe that paid nothing
C24_Witness ==
    /\ pc = "step"
    /\ total_salary_since_last_tithe = 50
    /\ salary_accumulator = 2050
    /\ Len(log) = 3
    /\ log[2].g.type = "tithe"

TitheSalary == SalaryGen(2000, 1, MAIN_ACCOUNT)

TitheSameDay == TitheGen(D(100, 1), 1, MAIN_ACCOUNT, CHARITY_EXPENDITURE)

TitheNextDay == TitheGen(D(100, 1), 2, MAIN_ACCOUNT, CHARITY_EXPENDITURE)

\* the step has gone through the whole list txs on the day d
StepOverList(txs, d) ==
    /\ pc = "step"
    /\ i > Len(config.transactions)
    /\ config.transactions = txs
    /\ date.d = d

\* C25: a Salary and a Tithe of the same day: the Tithe takes its amount from
\* the salaries applied before it only, so the salary is in that day's tithe
\* if the Salary is declared before the Tithe (20.00 x 10% = 2.00 is paid and
\* the accumulator is zero), and if it is declared after, nothing is paid that
\* day, the 20.00 stay in the accumulator and the Tithe of the next day pays
\* the 2.00.
C25_SalaryBeforeTitheIsTithed ==
    /\ \A k \in 1..Len(log) :
          log[k].g.type = "tithe" =>
              /\ log[k].acc = SalarySincePaidTithe(SubSeq(log, 1, k - 1))
              /\ IF StatedTithe(log[k].acc, log[k].g.percentage) > 0
                 THEN log[k].after[log[k].g.to] - log[k].before[log[k].g.to]
                          = StatedTithe(log[k].acc, log[k].g.percentage)
                 ELSE log[k].after = log[k].before
    /\ StepOverList(<<TitheSalary, TitheSameDay>>, 1) =>
          /\ new_balances[CHARITY_EXPENDITURE] = balances[CHARITY_EXPENDITURE] + 200
          /\ salary_accumulator = 0
    /\ StepOverList(<<TitheSameDay, TitheSalary>>, 1) =>
          /\ new_balances[CHARITY_EXPENDITURE] = balances[CHARITY_EXPENDITURE]
          /\ salary_accumulator = 2000
    /\ StepOverList(<<TitheSameDay, TitheSalary, TitheNextDay>>, 2) =>
          /\ total_salary_since_last_tithe = 2000
          /\ new_balances[CHARITY_EXPENDITURE] = balances[CHARITY_EXPENDITURE] + 200
          /\ salary_accumulator = 0

\* the Tithe declared before the Salary paid nothing on their day, and the
\* Tithe of the day after has paid the 2.00
C25_Witness ==
    /\ StepOverList(<<TitheSameDay, TitheSalary, TitheNextDay>>, 2)
    /\ Len(log) = 3
    /\ log[1].g = TitheSameDay
    /\ log[1].after = log[1].before
    /\ log[3].g = TitheNextDay
    /\ log[3].acc = 2000
    /\ new_balances[CHARITY_EXPENDITURE] = 200

\* C26: run comes to an end for every day count: it ends in its return or in
\* an abort; when it returns it has made exactly days_to_run steps (none for
\* days_to_run <= 0), never more on the way; and for days_to_run <= 0 it
\* makes no step and its history is empty.
C26_RunTerminates ==
    /\ <>(pc \in {"done", "panic"})
    /\ [](n <= Max(days_to_run, 0))
    /\ [](pc = "done" => (n = Max(days_to_run, 0) /\ Len(history) = n))
    /\ [](days_to_run <= 0 => (pc \notin {"step", "panic"} /\ history = <<>>))

C26_Witness ==
    /\ pc = "done"
    /\ days_to_run = 3
    /\ n = 3
    /\ Len(history) = 3

\* C27: every generator application leaves the total of the sheet as it was;
\* an application whose two accounts are the same account leaves the whole
\* sheet as it was; so the zero-sum check at the end of a step never fails in
\* a run from a sheet whose total is zero.
C27_ApplicationsKeepTotal ==
    /\ (last.i # 0 /\ last.ok) =>
          /\ Total(new_balances) = Total(last.b)
          /\ Cardinality(Names(last.g)) = 1 => new_balances = last.b
    /\ (Total(arg) = 0 /\ pc = "step") => Total(new_balances) = 0
    /\ (Total(arg) = 0 /\ pc = "panic") =>
          (last.i # 0 /\ ~last.ok /\ i <= Len(config.transactions))

\* a rounded interest has moved between two accounts after a salary of the
\* day before was paid into salary_income itself
C27_Witness ==
    /\ Applied("interest")
    /\ last.g.account # last.g.income_account
    /\ new_balances[MORTGAGE_ACCOUNT] = -1004
    /\ new_balances[MORTGAGE_INCOME] = 4
    /\ Len(log) >= 2
    /\ log[1].g.type = "salary"
    /\ log[1].after = log[1].before
    /\ Total(new_balances) = 0

\* C28: the account names do not change over a run: the sheet run works on,
\* the working sheet of every step and every snapshot of the history have
\* exactly the keys of the sheet the run was given.
C28_AccountNamesConstant ==
    pc \notin {"main", "call"} =>
        /\ DOMAIN balances = DOMAIN arg
        /\ pc \in {"step", "panic"} => DOMAIN new_balances = DOMAIN arg
        /\ \A k \in 1..Len(history) : DOMAIN history[k][2] = DOMAIN arg

\* three days recorded, the sheet changed on the first, on a sheet without the
\* savings account that a generator of the list names
C28_Witness ==
    /\ Len(history) = 3
    /\ history[1][2] # arg
    /\ SAVINGS \notin DOMAIN arg
    /\ \E k \in 1..Len(config.transactions) : SAVINGS \in Names(config.transactions[k])
    /\ DOMAIN history[3][2] = DOMAIN arg

\* between the applications j and k of the log, nothing changed the account
NotChangedBetween(account, j, k) ==
    \A m \in (j + 1)..(k - 1) :
        account \in DOMAIN log[m].before =>
            log[m].after[account] = log[m].before[account]

\* C29: right after a Mortgage has fired its `to` balance is still <= 0, and
\* its `from` balance is still >= 0 if it was >= 0 before; a Mortgage that
\* finds the liability at exactly zero deducts nothing, so that once a
\* Mortgage has brought the liability to zero every later one leaves the sheet
\* as it is, as long as no other generator changed the liability in between.
C29_MortgageNeverOverpays ==
    /\ Applied("mortgage") =>
          /\ new_balances[last.g.to] <= 0
          /\ last.b[last.g.from] >= 0 => new_balances[last.g.from] >= 0
          /\ last.b[last.g.to] = 0 => new_balances = last.b
    /\ \A j, k \in 1..Len(log) :
          ( /\ j < k
            /\ log[j].g.type = "mortgage"
            /\ log[k].g.type = "mortgage"
            /\ log[k].g.to = log[j].g.to
            /\ log[j].after[log[j].g.to] = 0
            /\ NotChangedBetween(log[j].g.to, j, k) )
          => log[k].after = log[k].before

\* a first Mortgage paid the liability off, a second one on a later day found
\* it at zero and a balance to pay from, and deducted nothing
C29_Witness ==
    /\ Applied("mortgage")
    /\ Len(log) >= 2
    /\ log[1].g.type = "mortgage"
    /\ log[1].before[MORTGAGE_ACCOUNT] = -30
    /\ log[1].after[MORTGAGE_ACCOUNT] = 0
    /\ log[Len(log)].date # log[1].date
    /\ last.b[MORTGAGE_ACCOUNT] = 0
    /\ last.b[MAIN_ACCOUNT] > 200
    /\ new_balances = last.b

\* the generator fires on the date: its day is the date's day of the month
\* (and, for an Interest, its rate is not zero)
FiresOn(g, dt) ==
    /\ dt.d = GenDay(g)
    /\ g.type = "interest" => g.rate.m # 0

\* the number of days the month has, written out for 2025
MonthLength2025 == <<31, 28, 31, 30, 31, 30, 31, 31, 30, 31, 30, 31>>

\* the firings of the generator g logged in the month of dt
FiringsIn(g, dt) ==
    {k \in 1..Len(log) :
        log[k].g = g /\ log[k].date.y = dt.y /\ log[k].date.m = dt.m}

\* the run of 64 days with the one generator g has returned
CalendarRunOf(g) ==
    pc = "done" /\ days_to_run = 64 /\ config.transactions = <<g>>

\* C30: a generator fires on a date exactly when the date's day of the month
\* is its day: every firing is on such a date, within the length of that
\* month; a generator fires at most once in a month for each place it has in
\* the list; over February 28 to May 2, 2025 a generator of day 29 or 30 fires
\* twice (March and April, not at the end of February), one of day 31 once
\* (March only) and one of day 0 or 32 never.
C30_FiresOnItsDayOnly ==
    /\ last.i # 0 => (last.fired <=> FiresOn(last.g, date))
    /\ \A k \in 1..Len(log) :
          /\ log[k].date.d = GenDay(log[k].g)
          /\ GenDay(log[k].g) \in 1..MonthLength2025[log[k].date.m]
          /\ Cardinality(FiringsIn(log[k].g, log[k].date))
                <= Cardinality({j \in 1..Len(config.transactions) :
                                   config.transactions[j] = log[k].g})
    /\ \A g \in CalendarPool :
          CalendarRunOf(g) =>
              /\ Len(log) = CASE g.day \in {29, 30} -> 2
                               [] g.day = 31 -> 1
                               [] OTHER -> 0
              /\ \A k \in 1..Len(log) : log[k].date.m \in {3, 4}

\* the run with the generator of day 31 has returned: it fired on March 31
\* and on no other day
C30_Witness ==
    /\ CalendarRunOf(TransferGen(40, 31, MAIN_ACCOUNT, CHARITY_EXPENDITURE))
    /\ Len(log) = 1
    /\ log[1].date = [y |-> 2025, m |-> 3, d |-> 31]
    /\ Len(history) = 64
    /\ history[64][1] = [y |-> 2025, m |-> 5, d |-> 2]
    /\ history[64][2][CHARITY_EXPENDITURE] = 40

\* the application k of the log is a Tithe that paid: its stated amount is
\* above zero
PaidTithe(k) ==
    /\ log[k].g.type = "tithe"
    /\ StatedTithe(log[k].acc, log[k].g.percentage) > 0

\* no Salary fired between the applications j and k of the log
NoSalaryBetween(j, k) ==
    \A m \in (j + 1)..(k - 1) : log[m].g.type # "salary"

\* the salary amounts of the applications between j and k of the log
RECURSIVE SalaryBetween(_, _)
SalaryBetween(j, k) ==
    IF j + 1 >= k THEN 0
    ELSE (IF log[k - 1].g.type = "salary" THEN log[k - 1].g.amount ELSE 0)
             + SalaryBetween(j, k - 1)

\* C31: the Tithe generators share the one accumulator: a Tithe that fires
\* after a Tithe that paid, with no Salary firing in between (the same day or
\* a later one), finds the accumulator at zero and changes no balance; and a
\* Tithe that fires after the last Tithe that paid computes its amount from
\* the salaries that fired since that one only, so no salary is in the amount
\* of two Tithes that paid.
C31_TithesShareAccumulator ==
    \A j, k \in 1..Len(log) :
        (j < k /\ PaidTithe(j) /\ log[k].g.type = "tithe") =>
            /\ NoSalaryBetween(j, k) =>
                  /\ log[k].acc = 0
                  /\ log[k].after = log[k].before
            /\ (\A m \in (j + 1)..(k - 1) : ~PaidTithe(m)) =>
                  log[k].acc = SalaryBetween(j, k)

\* February 28: after the salary of 20.00 the Tithe of 10% paid 2.00 and the
\* Tithe of 5% that fired after it moved nothing; March 28: after the next
\* salary of 20.00 the first Tithe paid 2.00 again, 10% of that salary alone,
\* and the second moved nothing
C31_Witness ==
    /\ config.transactions =
          << SalaryGen(2000, 28, MAIN_ACCOUNT),
             TitheGen(D(100, 1), 28, MAIN_ACCOUNT, CHARITY_EXPENDITURE),
             TitheGen(D(50, 1), 28, MAIN_ACCOUNT, CHARITY_EXPENDITURE) >>
    /\ pc = "done"
    /\ Len(log) = 6
    /\ log[2].after[CHARITY_EXPENDITURE] = log[2].before[CHARITY_EXPENDITURE] + 200
    /\ log[3].g.type = "tithe" /\ log[3].g # log[2].g
    /\ log[3].date = log[2].date
    /\ log[3].after = log[3].before
    /\ log[5].date = [y |-> 2025, m |-> 3, d |-> 28]
    /\ log[5].after[CHARITY_EXPENDITURE] = log[5].before[CHARITY_EXPENDITURE] + 200
    /\ log[6].after = log[6].before
    /\ history[30][2][CHARITY_EXPENDITURE] = 400

====
